---- MODULE Spec2Model ----
(***************************************************************************)
(* Neural Nexus: the top-level flow controller (App.tsx), the ingest step  *)
(* and the study session (Session.tsx) as one state machine, with the      *)
(* generation client (geminiService.ts) as pure operators.                 *)
(*                                                                         *)
(* React semantics used throughout:                                        *)
(*  - a handler runs to its first await in one step; what follows the      *)
(*    await runs in a later step, when the call resolves;                  *)
(*  - the continuation reads the values its closure captured when the      *)
(*    handler was invoked (activeConcept, history, challengeQ, currentQ);  *)
(*    functional updaters (setStats(prev => ..)) read the latest state;    *)
(*  - a component that is unmounted loses its state; a continuation of an  *)
(*    unmounted component changes nothing.                                 *)
(***************************************************************************)
EXTENDS Integers, Sequences, FiniteSets, Bags, TLC

\* ---------------------------------------------------------------- constants
STABILITY_PENALTY == 15
STABILITY_BONUS == 10
SYNC_PASS_DELTA == 10
SYNC_FAIL_DELTA == 5
SOCRATIC_PASS_SCORE == 70
INITIAL_STABILITY == 50
HISTORY_CAP == 20
MIN_TEXT_LENGTH == 50

\* ------------------------------------------------------------------- bounds
NumConcepts == 2        \* concepts of a session under SpecCore
NumOptions == 2         \* options of a CONCEPT_CHECK question
NumContents == 1        \* distinct deep-dive answers of the service
MaxReads == 1           \* FileReader loads outstanding at once
MaxCalls == 2           \* service calls outstanding at once
MaxStarts == 2          \* INITIALIZE presses per run of Spec
MaxSubmits == 1         \* scored submissions per run of Spec
CoreSubmits == 2        \* scored submissions per run of SpecCore
QuizSubmits == 3        \* scored submissions per run of SpecQuiz
LongSubmits == 21       \* scored submissions per run of SpecLong
LongCalls == 1          \* service calls outstanding at once under SpecLong
ScoreSubmits == 5       \* scored submissions per run of SpecScore
ScoreCalls == 1         \* service calls outstanding at once under SpecScore
RetrySubmits == 3       \* scored submissions per run of SpecRetry

NoConcept == 0
Absent == -2            \* correctOptionIndex left out of the response
NoOption == -3          \* selectedOption = null

\* ---------------------------------------------------------------- questions
CCq(k) == [type |-> "CONCEPT_CHECK", nopts |-> NumOptions, correct |-> k]
SDq == [type |-> "SOCRATIC_DEFENSE", nopts |-> 0, correct |-> -1]
CTq == [type |-> "COUNTER_THEORY", nopts |-> 0, correct |-> -1]

\* The session data the service can answer with: each concept with the
\* mastered flag the response text carries (raw), and the questions.
RawData(n, raw, qs) == [concepts |-> [i \in 1..n |-> raw], questions |-> qs]
StandardQuestions == <<CCq(0), CCq(1), SDq>>
OddQuestions == <<CCq(Absent), CCq(NumOptions), CTq>>
ShortQuestions == <<CCq(0), SDq>>
LongQuestions == <<CCq(0), CCq(0), CCq(0), SDq>>
SocraticFirstQuestions == <<SDq, CCq(0)>>
NoData == [concepts |-> <<>>, questions |-> <<>>]
\* What generateGameSession's request is answered with under Spec.
ServiceDatas == {RawData(1, raw, qs) : raw \in BOOLEAN, qs \in {<<CCq(0)>>, <<SDq>>}}

VARIABLES
  \* App.tsx
  envKey, booted, gameState, apiKey, inputContext, sessionData, error,
  \* Ingest
  text, loadedFile, reads,
  \* Session.tsx
  viewMode, concepts, activeConceptId, conceptMode, deepDiveData,
  loadingDeepDive, challengeQ, challengeAnswer, challengeFeedback,
  loadingChallenge, currentQIndex, stats, history, selectedOption,
  socraticInput, feedback, isEvaluating, quizComplete,
  \* service calls in flight, each with what its continuation captured
  calls,
  \* observation: the scoring events applied so far (scored, and quizLog for
  \* those of the simulation), and what the run may still do
  scored, quizLog, submitsLeft, startsLeft, callsCap

appVars == <<envKey, booted, gameState, apiKey, inputContext, sessionData, error>>
ingestVars == <<text, loadedFile, reads>>
coreVars == <<concepts, activeConceptId, conceptMode, deepDiveData,
              loadingDeepDive, challengeQ, challengeAnswer, challengeFeedback,
              loadingChallenge>>
quizVars == <<currentQIndex, selectedOption, socraticInput, feedback,
              isEvaluating, quizComplete>>
scoreVars == <<stats, history, scored, quizLog>>
vars == <<appVars, ingestVars, viewMode, coreVars, quizVars, scoreVars,
          calls, submitsLeft, startsLeft, callsCap>>

\* ------------------------------------------------------------------ helpers
Max(a, b) == IF a >= b THEN a ELSE b
Min(a, b) == IF a <= b THEN a ELSE b

NullQ == [src |-> "null", cid |-> NoConcept]
\* initSyncProtocol's catch: "Error generating protocol. Try again."
ErrorQ == [src |-> "error", cid |-> NoConcept]
\* generateConceptChallenge's fallback: "Explain this concept in your own words."
DefaultQ == [src |-> "default", cid |-> NoConcept]
GeneratedQ(c) == [src |-> "generated", cid |-> c]

\* The service's raw answer to one request: response.text is a JSON text, or
\* is empty, or generateContent throws.
Responses == {"text", "empty", "throws"}

\* A call in flight and what the code after its await reads from its closure.
Call(k, c, q, i, h) ==
  [kind |-> k, live |-> TRUE, cid |-> c, cq |-> q, qi |-> i, hist |-> h]

NumCalls == BagCardinality(calls)
Pending(k) == {c \in BagToSet(calls) : c.kind = k}
LivePending(k) == {c \in Pending(k) : c.live}
Issue(c) == calls' = calls (+) SetToBag({c})
Settle(c) == calls' = calls (-) SetToBag({c})

SessionMounted ==
  gameState = "SESSION_ACTIVE" /\ sessionData # NoData /\ inputContext # "none"
IngestMounted == gameState = "INGESTION"

Questions == sessionData.questions
currentQ == Questions[currentQIndex + 1]
activeConcept == IF activeConceptId \in DOMAIN concepts THEN activeConceptId ELSE NoConcept

\* ------------------------------------------------------- generation client
\* Each operation maps the service's raw answer to "ok" (a value is returned)
\* or "throw" (the promise rejects).
generateGameSession(resp) == IF resp = "text" THEN "ok" ELSE "throw"
\* data.concepts.map(c => ({...c, mastered: false}))
generateGameSessionValue(data) ==
  [data EXCEPT !.concepts = [i \in DOMAIN data.concepts |-> FALSE]]
generateDeepDive(resp) == IF resp = "text" THEN "ok" ELSE "throw"
generateConceptChallenge(resp) == IF resp = "throws" THEN "throw" ELSE "ok"
generateConceptChallengeValue(resp, c) == IF resp = "text" THEN GeneratedQ(c) ELSE DefaultQ
evaluateChallenge(resp) == IF resp = "text" THEN "ok" ELSE "throw"
evaluateSocraticAnswer(resp) == IF resp = "throws" THEN "throw" ELSE "ok"
evaluateSocraticAnswerScore(resp, v) == IF resp = "text" THEN v ELSE 0

\* The scores the evaluation may return (0..100): those next to the pass mark.
Scores == {SOCRATIC_PASS_SCORE - 1, SOCRATIC_PASS_SCORE}

\* ------------------------------------------------------------ updateStability
\* A variant of Clamp with Math.max(0, ..) left out.
ClampNoFloor(x) == Min(100, x)

Clamp(x) == Max(0, Min(100, x))

\* setStats(prev => ..) reads the latest stats; the history it extends is the
\* one captured by the closure that calls it.
NewHistory(closureHistory, newStability) ==
  LET appended == Append(closureHistory,
                         [time |-> Len(closureHistory), stability |-> newStability])
  IN IF Len(appended) > HISTORY_CAP THEN Tail(appended) ELSE appended

\* A variant that keeps the streak on a non-positive delta.
NewStatsNoReset(prev, delta) ==
  [prev EXCEPT !.stability = Clamp(prev.stability + delta),
               !.streak = IF delta > 0 THEN prev.streak + 1 ELSE prev.streak]

NewStats(prev, delta) ==
  [prev EXCEPT !.stability = Clamp(prev.stability + delta),
               !.streak = IF delta > 0 THEN prev.streak + 1 ELSE 0]

\* Observation: the number of updateStability calls so far, and the caller,
\* the delta and the stability before of the latest one.
NoneScored == [n |-> 0, src |-> "none", delta |-> 0, before |-> INITIAL_STABILITY]

\* updateStability(delta), then the caller's own setStats(s => ..) if any:
\* synced is what the caller adds to syncedNodes in the same handler.
updateStability(src, closureHistory, delta, synced) ==
  /\ stats' = [NewStats(stats, delta) EXCEPT !.syncedNodes = @ + synced]
  /\ history' = NewHistory(closureHistory, Clamp(stats.stability + delta))
  /\ scored' = [n |-> scored.n + 1, src |-> src, delta |-> delta,
                 before |-> stats.stability]

\* ------------------------------------------------------- Session: data core
DataCoreShown == SessionMounted /\ viewMode = "DATA_CORE"
FocusShown == DataCoreShown /\ activeConcept # NoConcept

SetViewMode(v) ==
  /\ SessionMounted
  /\ v = "SIMULATION" => Len(Questions) > 0
  /\ viewMode' = v
  /\ UNCHANGED <<appVars, ingestVars, coreVars, quizVars, scoreVars, calls,
                 submitsLeft, startsLeft, callsCap>>

\* A variant that keeps the challenge question, answer and feedback.
handleConceptSelectKeep(id) ==
  /\ DataCoreShown
  /\ id \in DOMAIN concepts
  /\ activeConceptId' = id
  /\ conceptMode' = "OVERVIEW"
  /\ UNCHANGED <<appVars, ingestVars, viewMode, concepts, deepDiveData,
                 loadingDeepDive, challengeQ, challengeAnswer,
                 challengeFeedback, loadingChallenge, quizVars, scoreVars,
                 calls, submitsLeft, startsLeft, callsCap>>

handleConceptSelect(id) ==
  /\ DataCoreShown
  /\ id \in DOMAIN concepts
  /\ activeConceptId' = id
  /\ conceptMode' = "OVERVIEW"
  /\ challengeQ' = NullQ
  /\ challengeAnswer' = ""
  /\ challengeFeedback' = "none"
  /\ UNCHANGED <<appVars, ingestVars, viewMode, concepts, deepDiveData,
                 loadingDeepDive, loadingChallenge, quizVars, scoreVars, calls,
                 submitsLeft, startsLeft, callsCap>>

SetConceptModeOverview ==
  /\ FocusShown
  /\ conceptMode' = "OVERVIEW"
  /\ UNCHANGED <<appVars, ingestVars, viewMode, concepts, activeConceptId,
                 deepDiveData, loadingDeepDive, challengeQ, challengeAnswer,
                 challengeFeedback, loadingChallenge, quizVars, scoreVars,
                 calls, submitsLeft, startsLeft, callsCap>>

\* fetchDeepDive up to its await: the cache hit, or the call going out.
DeepDiveCached(id) == deepDiveData[id] # 0

\* A variant that never looks at the cache.
fetchDeepDiveNoCache ==
  /\ FocusShown
  /\ NumCalls < callsCap
  /\ loadingDeepDive' = TRUE
  /\ Issue(Call("generateDeepDive", activeConcept, NullQ, 0, <<>>))
  /\ UNCHANGED <<appVars, ingestVars, viewMode, concepts, activeConceptId,
                 conceptMode, deepDiveData, challengeQ, challengeAnswer,
                 challengeFeedback, loadingChallenge, quizVars, scoreVars,
                 submitsLeft, startsLeft, callsCap>>

fetchDeepDive ==
  /\ FocusShown
  /\ IF DeepDiveCached(activeConcept)
       THEN /\ conceptMode' = "DEEP_DIVE"
            /\ UNCHANGED <<loadingDeepDive, calls>>
       ELSE /\ NumCalls < callsCap
            /\ loadingDeepDive' = TRUE
            /\ Issue(Call("generateDeepDive", activeConcept, NullQ, 0, <<>>))
            /\ UNCHANGED conceptMode
  /\ UNCHANGED <<appVars, ingestVars, viewMode, concepts, activeConceptId,
                 deepDiveData, challengeQ, challengeAnswer, challengeFeedback,
                 loadingChallenge, quizVars, scoreVars, submitsLeft, startsLeft, callsCap>>

\* fetchDeepDive after its await, in a session that is still mounted.
\* A variant that shows the deep-dive mode whether or not the call succeeded.
DeepDiveResolveAdvance(c, resp, content) ==
  /\ c \in LivePending("generateDeepDive")
  /\ Settle(c)
  /\ IF generateDeepDive(resp) = "ok"
       THEN deepDiveData' = [deepDiveData EXCEPT ![c.cid] = content]
       ELSE UNCHANGED deepDiveData
  /\ conceptMode' = "DEEP_DIVE"
  /\ loadingDeepDive' = FALSE
  /\ UNCHANGED <<appVars, ingestVars, viewMode, concepts, activeConceptId,
                 challengeQ, challengeAnswer, challengeFeedback,
                 loadingChallenge, quizVars, scoreVars, submitsLeft, startsLeft, callsCap>>

DeepDiveResolve(c, resp, content) ==
  /\ c \in LivePending("generateDeepDive")
  /\ Settle(c)
  /\ IF generateDeepDive(resp) = "ok"
       THEN /\ deepDiveData' = [deepDiveData EXCEPT ![c.cid] = content]
            /\ conceptMode' = "DEEP_DIVE"
       ELSE UNCHANGED <<deepDiveData, conceptMode>>
  /\ loadingDeepDive' = FALSE
  /\ UNCHANGED <<appVars, ingestVars, viewMode, concepts, activeConceptId,
                 challengeQ, challengeAnswer, challengeFeedback,
                 loadingChallenge, quizVars, scoreVars, submitsLeft, startsLeft, callsCap>>

\* initSyncProtocol up to its await; the button is disabled for a mastered concept.
initSyncProtocol ==
  /\ FocusShown
  /\ ~concepts[activeConcept]
  /\ NumCalls < callsCap
  /\ loadingChallenge' = TRUE
  /\ conceptMode' = "SYNC_PROTOCOL"
  /\ challengeQ' = NullQ
  /\ challengeAnswer' = ""
  /\ challengeFeedback' = "none"
  /\ Issue(Call("generateConceptChallenge", activeConcept, NullQ, 0, <<>>))
  /\ UNCHANGED <<appVars, ingestVars, viewMode, concepts, activeConceptId,
                 deepDiveData, loadingDeepDive, quizVars, scoreVars,
                 submitsLeft, startsLeft, callsCap>>

ChallengeResolve(c, resp) ==
  /\ c \in LivePending("generateConceptChallenge")
  /\ Settle(c)
  /\ challengeQ' = IF generateConceptChallenge(resp) = "ok"
                     THEN generateConceptChallengeValue(resp, c.cid)
                     ELSE ErrorQ
  /\ loadingChallenge' = FALSE
  /\ UNCHANGED <<appVars, ingestVars, viewMode, concepts, activeConceptId,
                 conceptMode, deepDiveData, loadingDeepDive, challengeAnswer,
                 challengeFeedback, quizVars, scoreVars, submitsLeft, startsLeft, callsCap>>

\* The challenge form: rendered in SYNC_PROTOCOL mode unless the spinner is.
ChallengeFormShown ==
  /\ FocusShown
  /\ conceptMode = "SYNC_PROTOCOL"
  /\ ~(loadingChallenge /\ challengeQ = NullQ)
AnswerBoxDisabled == loadingChallenge \/ challengeFeedback = "passed"
SyncSubmitDisabled ==
  challengeAnswer = "" \/ loadingChallenge \/ challengeFeedback = "passed"

SetChallengeAnswer(a) ==
  /\ ChallengeFormShown
  /\ ~AnswerBoxDisabled
  /\ challengeAnswer' = a
  /\ UNCHANGED <<appVars, ingestVars, viewMode, concepts, activeConceptId,
                 conceptMode, deepDiveData, loadingDeepDive, challengeQ,
                 challengeFeedback, loadingChallenge, quizVars, scoreVars,
                 calls, submitsLeft, startsLeft, callsCap>>

\* submitSyncChallenge up to its await (its guard returns without a change).
submitSyncChallenge ==
  /\ ChallengeFormShown
  /\ ~SyncSubmitDisabled
  /\ activeConcept # NoConcept /\ challengeQ # NullQ /\ challengeAnswer # ""
  /\ NumCalls < callsCap
  /\ submitsLeft > 0
  /\ submitsLeft' = submitsLeft - 1
  /\ loadingChallenge' = TRUE
  /\ Issue(Call("evaluateChallenge", activeConcept, challengeQ, 0, history))
  /\ UNCHANGED <<appVars, ingestVars, viewMode, concepts, activeConceptId,
                 conceptMode, deepDiveData, loadingDeepDive, challengeQ,
                 challengeAnswer, challengeFeedback, quizVars, quizLog,
                 stats, history, scored, startsLeft, callsCap>>

\* A variant that takes the pass branch whatever the evaluation says.
ChallengePassedAlways(passed) == TRUE

\* if (result.passed)
ChallengePassed(passed) == passed

\* A variant that masters the concept that is active when the call resolves.
SyncResolveActive(c, resp, passed) ==
  /\ c \in LivePending("evaluateChallenge")
  /\ Settle(c)
  /\ IF evaluateChallenge(resp) = "ok"
       THEN /\ challengeFeedback' = IF passed THEN "passed" ELSE "failed"
            /\ IF ChallengePassed(passed)
                 THEN /\ concepts' = IF activeConcept = NoConcept THEN concepts
                                      ELSE [concepts EXCEPT ![activeConcept] = TRUE]
                      /\ updateStability("sync", c.hist, SYNC_PASS_DELTA, 1)
                 ELSE /\ updateStability("sync", c.hist, -SYNC_FAIL_DELTA, 0)
                      /\ UNCHANGED concepts
       ELSE UNCHANGED <<challengeFeedback, concepts, stats, history, scored>>
  /\ loadingChallenge' = FALSE
  /\ UNCHANGED <<appVars, ingestVars, viewMode, activeConceptId, conceptMode,
                 deepDiveData, loadingDeepDive, challengeQ, challengeAnswer,
                 quizVars, quizLog, submitsLeft, startsLeft, callsCap>>

SyncResolve(c, resp, passed) ==
  /\ c \in LivePending("evaluateChallenge")
  /\ Settle(c)
  /\ IF evaluateChallenge(resp) = "ok"
       THEN /\ challengeFeedback' = IF passed THEN "passed" ELSE "failed"
            /\ IF ChallengePassed(passed)
                 THEN /\ concepts' = [concepts EXCEPT ![c.cid] = TRUE]
                      /\ updateStability("sync", c.hist, SYNC_PASS_DELTA, 1)
                 ELSE /\ updateStability("sync", c.hist, -SYNC_FAIL_DELTA, 0)
                      /\ UNCHANGED concepts
       ELSE UNCHANGED <<challengeFeedback, concepts, stats, history, scored>>
  /\ loadingChallenge' = FALSE
  /\ UNCHANGED <<appVars, ingestVars, viewMode, activeConceptId, conceptMode,
                 deepDiveData, loadingDeepDive, challengeQ, challengeAnswer,
                 quizVars, quizLog, submitsLeft, startsLeft, callsCap>>

\* ------------------------------------------------------ Session: simulation
QuestionShown == SessionMounted /\ viewMode = "SIMULATION" /\ ~quizComplete
IsSocratic == currentQ.type = "SOCRATIC_DEFENSE"

\* An option button of a question that is not a SOCRATIC_DEFENSE.
SetSelectedOption(idx) ==
  /\ QuestionShown
  /\ ~IsSocratic
  /\ idx \in 0..(currentQ.nopts - 1)
  /\ feedback = "none"
  /\ selectedOption' = idx
  /\ UNCHANGED <<appVars, ingestVars, viewMode, coreVars, currentQIndex,
                 socraticInput, feedback, isEvaluating, quizComplete,
                 scoreVars, calls, submitsLeft, startsLeft, callsCap>>

\* The free-text box: "" is empty, " " is blank, "a" is an answer.
SocraticInputs == {"", " ", "a"}
Trim(str) == IF str = " " THEN "" ELSE str

SetSocraticInput(str) ==
  /\ QuestionShown
  /\ IsSocratic
  /\ feedback = "none" /\ ~isEvaluating
  /\ socraticInput' = str
  /\ UNCHANGED <<appVars, ingestVars, viewMode, coreVars, currentQIndex,
                 selectedOption, feedback, isEvaluating, quizComplete,
                 scoreVars, calls, submitsLeft, startsLeft, callsCap>>

\* SUBMIT ANSWER is rendered while there is no feedback.
SubmitShown == QuestionShown /\ feedback = "none"
SubmitDisabled ==
  IF IsSocratic THEN socraticInput = "" ELSE selectedOption = NoOption

\* A variant that accepts any selection when the question's correct index is
\* not the index of one of its options.
IsCorrectLoose(selected, q) ==
  selected = q.correct \/ q.correct \notin 0..(q.nopts - 1)

IsCorrect(selected, q) == selected = q.correct

handleChoiceSubmit ==
  /\ SubmitShown /\ ~IsSocratic /\ ~SubmitDisabled
  /\ selectedOption # NoOption
  /\ submitsLeft > 0
  /\ submitsLeft' = submitsLeft - 1
  /\ LET delta == IF IsCorrect(selectedOption, currentQ)
                    THEN STABILITY_BONUS ELSE -STABILITY_PENALTY
     IN /\ feedback' = IF delta > 0 THEN "success" ELSE "error"
        /\ updateStability("choice", history, delta, 0)
        /\ quizLog' = Append(quizLog, [qi |-> currentQIndex, src |-> "choice",
                                       answer |-> selectedOption, delta |-> delta])
  /\ UNCHANGED <<appVars, ingestVars, viewMode, coreVars, currentQIndex,
                 selectedOption, socraticInput, isEvaluating, quizComplete,
                 calls, startsLeft, callsCap>>

\* handleSocraticSubmit up to its await.
handleSocraticSubmit ==
  /\ SubmitShown /\ IsSocratic /\ ~SubmitDisabled
  /\ Trim(socraticInput) # ""
  /\ NumCalls < callsCap
  /\ submitsLeft > 0
  /\ submitsLeft' = submitsLeft - 1
  /\ isEvaluating' = TRUE
  /\ Issue(Call("evaluateSocraticAnswer", NoConcept, NullQ, currentQIndex, history))
  /\ UNCHANGED <<appVars, ingestVars, viewMode, coreVars, currentQIndex,
                 selectedOption, socraticInput, feedback, quizComplete,
                 scoreVars, startsLeft, callsCap>>

\* A variant whose threshold is passed only by a score above it.
SocraticPassedStrict(score) == score > SOCRATIC_PASS_SCORE
\* A variant that rewards a Socratic pass with the plain bonus.
SocraticDeltaPlain(passed) ==
  IF passed THEN STABILITY_BONUS ELSE -STABILITY_PENALTY

SocraticPassed(score) == score >= SOCRATIC_PASS_SCORE
SocraticDelta(passed) ==
  IF passed THEN (STABILITY_BONUS * 3) \div 2 ELSE -STABILITY_PENALTY

SocraticResolve(c, resp, v) ==
  /\ c \in LivePending("evaluateSocraticAnswer")
  /\ Settle(c)
  /\ IF evaluateSocraticAnswer(resp) = "ok"
       THEN LET score == evaluateSocraticAnswerScore(resp, v)
                passed == SocraticPassed(score)
            IN /\ feedback' = IF passed THEN "success" ELSE "error"
               /\ updateStability("socratic", c.hist, SocraticDelta(passed), 0)
               /\ quizLog' = Append(quizLog, [qi |-> c.qi, src |-> "socratic",
                                              answer |-> score,
                                              delta |-> SocraticDelta(passed)])
       ELSE /\ feedback' = "error"
            /\ UNCHANGED scoreVars
  /\ isEvaluating' = FALSE
  /\ UNCHANGED <<appVars, ingestVars, viewMode, coreVars, currentQIndex,
                 selectedOption, socraticInput, quizComplete, submitsLeft,
                 startsLeft, callsCap>>

\* A variant whose CONTINUE on the last question also goes back to the first.
nextQuestionRestart ==
  /\ QuestionShown
  /\ feedback # "none"
  /\ IF currentQIndex < Len(Questions) - 1
       THEN /\ currentQIndex' = currentQIndex + 1
            /\ UNCHANGED quizComplete
       ELSE /\ quizComplete' = TRUE
            /\ currentQIndex' = 0
  /\ selectedOption' = NoOption
  /\ socraticInput' = ""
  /\ feedback' = "none"
  /\ UNCHANGED <<appVars, ingestVars, viewMode, coreVars, isEvaluating,
                 scoreVars, calls, submitsLeft, startsLeft, callsCap>>

\* CONTINUE is rendered in place of SUBMIT ANSWER once there is feedback.
nextQuestion ==
  /\ QuestionShown
  /\ feedback # "none"
  /\ IF currentQIndex < Len(Questions) - 1
       THEN /\ currentQIndex' = currentQIndex + 1
            /\ selectedOption' = NoOption
            /\ socraticInput' = ""
            /\ feedback' = "none"
            /\ UNCHANGED quizComplete
       ELSE /\ quizComplete' = TRUE
            /\ UNCHANGED <<currentQIndex, selectedOption, socraticInput, feedback>>
  /\ UNCHANGED <<appVars, ingestVars, viewMode, coreVars, isEvaluating,
                 scoreVars, calls, submitsLeft, startsLeft, callsCap>>

\* A call of a session that has been left: its continuation sets the state of
\* an unmounted component, which changes nothing.
OrphanResolve(c) ==
  /\ c \in BagToSet(calls)
  /\ ~c.live
  /\ Settle(c)
  /\ UNCHANGED <<appVars, ingestVars, viewMode, coreVars, quizVars, scoreVars,
                 submitsLeft, startsLeft, callsCap>>

Orphaned(bag) ==
  LET dead == {[c EXCEPT !.live = FALSE] : c \in BagToSet(bag)}
  IN [d \in dead |-> CopiesIn(d, bag) + CopiesIn([d EXCEPT !.live = TRUE], bag)]

\* TERMINATE, or EXIT SYSTEM on the completion screen: App's onExit.
\* ------------------------------------------------------- component mounting
\* The state a Session has when it mounts with `data` (its useState initials);
\* with NoData, the blank that stands for an unmounted Session.
InitialSession(data) ==
  [viewMode |-> "DATA_CORE",
   concepts |-> data.concepts,
   activeConceptId |-> NoConcept,
   conceptMode |-> "OVERVIEW",
   deepDiveData |-> [i \in DOMAIN data.concepts |-> 0],
   loadingDeepDive |-> FALSE,
   challengeQ |-> NullQ,
   challengeAnswer |-> "",
   challengeFeedback |-> "none",
   loadingChallenge |-> FALSE,
   currentQIndex |-> 0,
   stats |-> [syncedNodes |-> 0, stability |-> INITIAL_STABILITY, streak |-> 0],
   history |-> <<[time |-> 0, stability |-> INITIAL_STABILITY]>>,
   selectedOption |-> NoOption,
   socraticInput |-> "",
   feedback |-> "none",
   isEvaluating |-> FALSE,
   quizComplete |-> FALSE]

SessionIs(s) ==
  /\ viewMode = s.viewMode
  /\ concepts = s.concepts
  /\ activeConceptId = s.activeConceptId
  /\ conceptMode = s.conceptMode
  /\ deepDiveData = s.deepDiveData
  /\ loadingDeepDive = s.loadingDeepDive
  /\ challengeQ = s.challengeQ
  /\ challengeAnswer = s.challengeAnswer
  /\ challengeFeedback = s.challengeFeedback
  /\ loadingChallenge = s.loadingChallenge
  /\ currentQIndex = s.currentQIndex
  /\ stats = s.stats
  /\ history = s.history
  /\ selectedOption = s.selectedOption
  /\ socraticInput = s.socraticInput
  /\ feedback = s.feedback
  /\ isEvaluating = s.isEvaluating
  /\ quizComplete = s.quizComplete

\* A variant in which the stats and the history outlive the component.
MountSessionStale(data) ==
  LET s == InitialSession(data)
  IN /\ viewMode' = s.viewMode
     /\ concepts' = s.concepts
     /\ activeConceptId' = s.activeConceptId
     /\ conceptMode' = s.conceptMode
     /\ deepDiveData' = s.deepDiveData
     /\ loadingDeepDive' = s.loadingDeepDive
     /\ challengeQ' = s.challengeQ
     /\ challengeAnswer' = s.challengeAnswer
     /\ challengeFeedback' = s.challengeFeedback
     /\ loadingChallenge' = s.loadingChallenge
     /\ currentQIndex' = s.currentQIndex
     /\ UNCHANGED <<stats, history>>
     /\ selectedOption' = s.selectedOption
     /\ socraticInput' = s.socraticInput
     /\ feedback' = s.feedback
     /\ isEvaluating' = s.isEvaluating
     /\ quizComplete' = s.quizComplete
     /\ scored' = NoneScored
     /\ quizLog' = <<>>

MountSession(data) ==
  LET s == InitialSession(data)
  IN /\ viewMode' = s.viewMode
     /\ concepts' = s.concepts
     /\ activeConceptId' = s.activeConceptId
     /\ conceptMode' = s.conceptMode
     /\ deepDiveData' = s.deepDiveData
     /\ loadingDeepDive' = s.loadingDeepDive
     /\ challengeQ' = s.challengeQ
     /\ challengeAnswer' = s.challengeAnswer
     /\ challengeFeedback' = s.challengeFeedback
     /\ loadingChallenge' = s.loadingChallenge
     /\ currentQIndex' = s.currentQIndex
     /\ stats' = s.stats
     /\ history' = s.history
     /\ selectedOption' = s.selectedOption
     /\ socraticInput' = s.socraticInput
     /\ feedback' = s.feedback
     /\ isEvaluating' = s.isEvaluating
     /\ quizComplete' = s.quizComplete
     /\ scored' = NoneScored
     /\ quizLog' = <<>>

\* The state an Ingest has when it mounts; also the blank of an unmounted one.
MountIngest ==
  /\ text' = 0
  /\ loadedFile' = "none"

\* --------------------------------------------------------------------- App
\* A variant that enters INGESTION whether or not there is a key.
AppEffectNoCheck ==
  /\ ~booted
  /\ booted' = TRUE
  /\ apiKey' = envKey
  /\ gameState' = "INGESTION"
  /\ UNCHANGED <<envKey, inputContext, sessionData, error, ingestVars,
                 viewMode, coreVars, quizVars, scoreVars, calls, submitsLeft,
                 startsLeft, callsCap>>

AppEffect ==
  /\ ~booted
  /\ booted' = TRUE
  /\ IF envKey
       THEN /\ apiKey' = TRUE
            /\ gameState' = "INGESTION"
            /\ UNCHANGED error
       ELSE /\ error' = "ENV_KEY_MISSING"
            /\ UNCHANGED <<apiKey, gameState>>
  /\ UNCHANGED <<envKey, inputContext, sessionData, ingestVars, viewMode,
                 coreVars, quizVars, scoreVars, calls, submitsLeft, startsLeft, callsCap>>

\* handleStartProcessing up to its await; Ingest unmounts as PROCESSING renders.
handleStartProcessing(input) ==
  /\ inputContext' = input
  /\ gameState' = "PROCESSING"
  /\ error' = "none"
  /\ Issue(Call("generateGameSession", NoConcept, NullQ, 0, <<>>))
  /\ MountIngest
  /\ reads' = [r \in {"text", "pdf"} |-> [live |-> 0, dead |-> reads[r].live + reads[r].dead]]

\* A variant whose failure branch goes back to INGESTION without a message.
ProcessingResolveSilent(c, resp, data) ==
  /\ c \in Pending("generateGameSession")
  /\ Settle(c)
  /\ IF generateGameSession(resp) = "ok"
       THEN /\ sessionData' = generateGameSessionValue(data)
            /\ gameState' = "SESSION_ACTIVE"
            /\ MountSession(generateGameSessionValue(data))
       ELSE /\ gameState' = "INGESTION"
            /\ UNCHANGED <<sessionData, viewMode, coreVars, quizVars, scoreVars>>
  /\ UNCHANGED <<envKey, booted, apiKey, inputContext, error, ingestVars,
                 submitsLeft, startsLeft, callsCap>>

ProcessingResolve(c, resp, data) ==
  /\ c \in Pending("generateGameSession")
  /\ Settle(c)
  /\ IF generateGameSession(resp) = "ok"
       THEN /\ sessionData' = generateGameSessionValue(data)
            /\ gameState' = "SESSION_ACTIVE"
            /\ MountSession(generateGameSessionValue(data))
            /\ UNCHANGED error
       ELSE /\ error' = "Neural construction failed"
            /\ gameState' = "INGESTION"
            /\ UNCHANGED <<sessionData, viewMode, coreVars, quizVars, scoreVars>>
  /\ UNCHANGED <<envKey, booted, apiKey, inputContext, ingestVars,
                 submitsLeft, startsLeft, callsCap>>

\* ------------------------------------------------------------------ Ingest
TextLengths == {0, MIN_TEXT_LENGTH, MIN_TEXT_LENGTH + 1}
NumReads == reads["text"].live + reads["text"].dead + reads["pdf"].live + reads["pdf"].dead

\* The textarea is rendered when no file is loaded.
SetText(len) ==
  /\ IngestMounted
  /\ loadedFile = "none"
  /\ text' = len
  /\ UNCHANGED <<appVars, loadedFile, reads, viewMode, coreVars, quizVars,
                 scoreVars, calls, submitsLeft, startsLeft, callsCap>>

\* handleFile: a text file, a PDF, or a file of another type.
FileKind(file) ==
  IF file.type = "text/plain" \/ file.ext \in {"md", "txt"} THEN "text"
  ELSE IF file.type = "application/pdf" THEN "pdf" ELSE "other"
Files == {[type |-> "text/plain", ext |-> "txt"], [type |-> "", ext |-> "md"],
          [type |-> "application/pdf", ext |-> "pdf"],
          [type |-> "image/png", ext |-> "png"]}

handleFile(file) ==
  /\ IngestMounted
  /\ FileKind(file) # "other" => NumReads < MaxReads
  /\ text' = 0
  /\ loadedFile' = IF FileKind(file) = "text" THEN "none" ELSE loadedFile
  /\ reads' = IF FileKind(file) = "other" THEN reads
              ELSE [reads EXCEPT ![FileKind(file)].live = @ + 1]
  /\ UNCHANGED <<appVars, viewMode, coreVars, quizVars, scoreVars, calls,
                 submitsLeft, startsLeft, callsCap>>

\* reader.onload of a text file: len is the length of what was read.
TextReadLoad(len) ==
  /\ reads["text"].live > 0
  /\ reads' = [reads EXCEPT !["text"].live = @ - 1]
  /\ text' = IF len > 0 THEN len ELSE text
  /\ UNCHANGED <<appVars, loadedFile, viewMode, coreVars, quizVars, scoreVars,
                 calls, submitsLeft, startsLeft, callsCap>>

\* reader.onload of a PDF: the data URL read is never empty.
PdfReadLoad ==
  /\ reads["pdf"].live > 0
  /\ reads' = [reads EXCEPT !["pdf"].live = @ - 1]
  /\ loadedFile' = "application/pdf"
  /\ UNCHANGED <<appVars, text, viewMode, coreVars, quizVars, scoreVars,
                 calls, submitsLeft, startsLeft, callsCap>>

\* reader.onload after the Ingest that started the read has unmounted.
OrphanReadLoad(kind) ==
  /\ reads[kind].dead > 0
  /\ reads' = [reads EXCEPT ![kind].dead = @ - 1]
  /\ UNCHANGED <<appVars, text, loadedFile, viewMode, coreVars, quizVars,
                 scoreVars, calls, submitsLeft, startsLeft, callsCap>>

RemoveArtifact ==
  /\ IngestMounted
  /\ loadedFile # "none"
  /\ loadedFile' = "none"
  /\ UNCHANGED <<appVars, text, reads, viewMode, coreVars, quizVars, scoreVars,
                 calls, submitsLeft, startsLeft, callsCap>>

isReady == text > MIN_TEXT_LENGTH \/ loadedFile # "none"

\* A variant that also accepts a text of exactly MIN_TEXT_LENGTH characters.
handleStartLoose ==
  /\ IngestMounted
  /\ text >= MIN_TEXT_LENGTH \/ loadedFile # "none"
  /\ startsLeft > 0 /\ NumCalls < callsCap
  /\ startsLeft' = startsLeft - 1
  /\ IF loadedFile # "none"
       THEN handleStartProcessing("file")
       ELSE handleStartProcessing("text")
  /\ UNCHANGED <<envKey, booted, apiKey, sessionData, viewMode, coreVars,
                 quizVars, scoreVars, submitsLeft, callsCap>>

\* INITIALIZE: handleStart, and through onStart App's handleStartProcessing.
handleStart ==
  /\ IngestMounted
  /\ isReady
  /\ startsLeft > 0 /\ NumCalls < callsCap
  /\ startsLeft' = startsLeft - 1
  /\ IF loadedFile # "none"
       THEN handleStartProcessing("file")
       ELSE text > MIN_TEXT_LENGTH /\ handleStartProcessing("text")
  /\ UNCHANGED <<envKey, booted, apiKey, sessionData, viewMode, coreVars,
                 quizVars, scoreVars, submitsLeft, callsCap>>

\* TERMINATE, or EXIT SYSTEM on the completion screen: App's onExit. The
\* Session unmounts and Ingest mounts.
onExit ==
  /\ SessionMounted
  /\ gameState' = "INGESTION"
  /\ calls' = Orphaned(calls)
  /\ MountSession(NoData)
  /\ MountIngest
  /\ UNCHANGED <<envKey, booted, apiKey, inputContext, sessionData, error,
                 reads, submitsLeft, startsLeft, callsCap>>

\* ---------------------------------------------------------- specifications
NoReads == [r \in {"text", "pdf"} |-> [live |-> 0, dead |-> 0]]

\* The page as loaded: App in INIT before its effect has run, with or without
\* process.env.API_KEY.
Init ==
  /\ envKey \in BOOLEAN
  /\ booted = FALSE
  /\ gameState = "INIT"
  /\ apiKey = FALSE
  /\ inputContext = "none"
  /\ sessionData = NoData
  /\ error = "none"
  /\ text = 0
  /\ loadedFile = "none"
  /\ reads = NoReads
  /\ SessionIs(InitialSession(NoData))
  /\ scored = NoneScored
  /\ quizLog = <<>>
  /\ calls = EmptyBag
  /\ submitsLeft = MaxSubmits
  /\ startsLeft = MaxStarts
  /\ callsCap = MaxCalls

SessionNext ==
  \/ \E v \in {"DATA_CORE", "SIMULATION"} : SetViewMode(v)
  \/ \E id \in DOMAIN concepts : handleConceptSelect(id)
  \/ SetConceptModeOverview
  \/ fetchDeepDive
  \/ \E c \in BagToSet(calls), resp \in Responses, content \in 1..NumContents :
       DeepDiveResolve(c, resp, content)
  \/ initSyncProtocol
  \/ \E c \in BagToSet(calls), resp \in Responses : ChallengeResolve(c, resp)
  \/ \E a \in {"", "a"} : SetChallengeAnswer(a)
  \/ submitSyncChallenge
  \/ \E c \in BagToSet(calls), resp \in Responses, passed \in BOOLEAN :
       SyncResolve(c, resp, passed)
  \/ \E idx \in 0..(NumOptions - 1) : SetSelectedOption(idx)
  \/ \E str \in SocraticInputs : SetSocraticInput(str)
  \/ handleChoiceSubmit
  \/ handleSocraticSubmit
  \/ \E c \in BagToSet(calls), resp \in Responses, v \in Scores :
       SocraticResolve(c, resp, v)
  \/ nextQuestion

Next ==
  \/ AppEffect
  \/ \E len \in TextLengths : SetText(len)
  \/ \E file \in Files : handleFile(file)
  \/ \E len \in TextLengths : TextReadLoad(len)
  \/ PdfReadLoad
  \/ \E kind \in {"text", "pdf"} : OrphanReadLoad(kind)
  \/ RemoveArtifact
  \/ handleStart
  \/ \E c \in BagToSet(calls), resp \in Responses, data \in ServiceDatas :
       ProcessingResolve(c, resp, data)
  \/ SessionNext
  \/ \E c \in BagToSet(calls) : OrphanResolve(c)
  \/ onExit

Spec == Init /\ [][Next]_vars

\* A session just mounted with `data`, as ProcessingResolve leaves it, with
\* `submits` scored submissions left to make and at most `cap` calls in flight.
InitSession(data, submits, cap) ==
  /\ envKey = TRUE
  /\ booted = TRUE
  /\ gameState = "SESSION_ACTIVE"
  /\ apiKey = TRUE
  /\ inputContext = "text"
  /\ sessionData = generateGameSessionValue(data)
  /\ error = "none"
  /\ text = 0
  /\ loadedFile = "none"
  /\ reads = NoReads
  /\ SessionIs(InitialSession(generateGameSessionValue(data)))
  /\ scored = NoneScored
  /\ quizLog = <<>>
  /\ calls = EmptyBag
  /\ submitsLeft = submits
  /\ startsLeft = 0
  /\ callsCap = cap

\* The data core with several concepts.
InitCore == InitSession(RawData(NumConcepts, FALSE, ShortQuestions), CoreSubmits, MaxCalls)
SpecCore == InitCore /\ [][SessionNext]_vars

\* The simulation over whole question lists.
InitQuiz ==
  \E qs \in {StandardQuestions, OddQuestions} :
    InitSession(RawData(1, FALSE, qs), QuizSubmits, MaxCalls)
SpecQuiz == InitQuiz /\ [][SessionNext]_vars

\* A long session: enough scoring events to fill the history. Its runs are
\* the runs of a session in which the user works on one concept's sync
\* protocol and on the first question, and nothing else.
InitLong == InitSession(RawData(1, FALSE, <<CCq(0)>>), LongSubmits, LongCalls)
LongNext ==
  \/ \E v \in {"DATA_CORE", "SIMULATION"} : SetViewMode(v)
  \/ \E id \in DOMAIN concepts : handleConceptSelect(id)
  \/ initSyncProtocol
  \/ \E c \in BagToSet(calls), resp \in Responses : ChallengeResolve(c, resp)
  \/ \E a \in {"", "a"} : SetChallengeAnswer(a)
  \/ submitSyncChallenge
  \/ \E c \in BagToSet(calls), resp \in Responses, passed \in BOOLEAN :
       SyncResolve(c, resp, passed)
  \/ \E idx \in 0..(NumOptions - 1) : SetSelectedOption(idx)
  \/ handleChoiceSubmit
SpecLong == InitLong /\ [][LongNext]_vars

\* Every kind of scoring event, often enough for the stability to reach both
\* ends of its range: the runs of a session in which the user works on the
\* sync protocol and on the questions, and never opens a deep dive.
InitScore == InitSession(RawData(1, FALSE, LongQuestions), ScoreSubmits, ScoreCalls)
ScoreNext ==
  \/ LongNext
  \/ \E str \in SocraticInputs : SetSocraticInput(str)
  \/ handleSocraticSubmit
  \/ \E c \in BagToSet(calls), resp \in Responses, v \in Scores :
       SocraticResolve(c, resp, v)
  \/ nextQuestion
SpecScore == InitScore /\ [][ScoreNext]_vars

\* A session whose first question is the Socratic defense, with submissions
\* enough to submit it more than once.
InitRetry ==
  InitSession(RawData(1, FALSE, SocraticFirstQuestions), RetrySubmits, MaxCalls)
SpecRetry == InitRetry /\ [][SessionNext]_vars

\* ------------------------------------------------------------------ properties

\* C1: every scoring event with delta d applied at stability s (sync +10 / -5,
\* concept check +10 / -15, Socratic +15 / -15) leaves the stability at
\* max(0, min(100, s + d)), so the stability is within 0..100 in every state.
C1_StabilityClamped ==
  /\ stats.stability >= 0 /\ stats.stability <= 100
  /\ scored.n > 0 =>
       LET sum == scored.before + scored.delta
       IN /\ scored.src = "sync" => scored.delta \in {10, -5}
          /\ scored.src = "choice" => scored.delta \in {10, -15}
          /\ scored.src = "socratic" => scored.delta \in {15, -15}
          /\ stats.stability = IF sum > 100 THEN 100 ELSE IF sum < 0 THEN 0 ELSE sum

\* A Socratic pass that would take the stability over 100 has been applied.
C1_Witness ==
  /\ scored.n > 0 /\ scored.src = "socratic"
  /\ scored.before + scored.delta > 100
  /\ stats.stability = 100

\* C2: the history never holds more than 20 samples, and a scoring event
\* applied when it holds 20 drops the oldest sample and puts the new one last.
C2_HistoryRing ==
  [][/\ Len(history') <= 20
     /\ (scored'.n = scored.n + 1 /\ Len(history) = 20) =>
          /\ Len(history') = 20
          /\ \A i \in 1..19 : history'[i] = history[i + 1]
          /\ history'[20].stability = stats'.stability]_vars

\* C3: a concept's mastered flag goes from false to true only in the step that
\* handles a successful evaluateChallenge response with passed = true for that
\* concept, and a mastered concept never becomes unmastered.
C3_MasteredOnlyByPass ==
  [][\A i \in DOMAIN concepts :
       /\ concepts[i] => concepts'[i]
       /\ (~concepts[i] /\ concepts'[i]) =>
            /\ \E c \in LivePending("evaluateChallenge") :
                 c.cid = i /\ calls' = calls (-) SetToBag({c})
            /\ challengeFeedback' = "passed"
            /\ scored'.n = scored.n + 1 /\ scored'.delta = SYNC_PASS_DELTA]_vars

\* A concept has been mastered by a passed evaluation.
C3_Witness ==
  /\ \E i \in DOMAIN concepts : concepts[i]
  /\ scored.src = "sync" /\ scored.delta = SYNC_PASS_DELTA

\* C4: no generateDeepDive call is issued for a concept id that already has a
\* generateDeepDive call outstanding or a cache entry.
C4_DeepDiveOnce ==
  [][\A id \in DOMAIN concepts :
       LET call == Call("generateDeepDive", id, NullQ, 0, <<>>)
       IN CopiesIn(call, calls') > CopiesIn(call, calls) =>
            CopiesIn(call, calls) = 0 /\ ~DeepDiveCached(id)]_vars

\* C5: a deep-dive request for an active concept whose id is in the cache
\* switches the sub-mode to DEEP_DIVE in that step, issues no call and leaves
\* the cache as it is; no call goes out for an id that is in the cache.
C5_CacheHit ==
  [][/\ (fetchDeepDive /\ DeepDiveCached(activeConcept)) =>
          /\ conceptMode' = "DEEP_DIVE"
          /\ calls' = calls
          /\ deepDiveData' = deepDiveData
     /\ \A id \in DOMAIN concepts :
          LET call == Call("generateDeepDive", id, NullQ, 0, <<>>)
          IN DeepDiveCached(id) => CopiesIn(call, calls') <= CopiesIn(call, calls)]_vars

\* The cached deep dive of the active concept is shown while the deep dive of
\* another concept is still loading: the mode was set by a cache hit.
C5_Witness ==
  /\ activeConcept # NoConcept
  /\ DeepDiveCached(activeConcept)
  /\ conceptMode = "DEEP_DIVE"
  /\ loadingDeepDive
  /\ \E c \in LivePending("generateDeepDive") : c.cid # activeConcept

\* C6: every submitted concept-check selection was applied with delta +10 when
\* it equals the question's correctOptionIndex and with delta -15 otherwise,
\* also when that index is absent or is not the index of an option.
C6_ChoiceDelta ==
  /\ \A k \in DOMAIN quizLog :
       quizLog[k].src = "choice" =>
         /\ quizLog[k].answer # NoOption
         /\ quizLog[k].delta =
              IF quizLog[k].answer = Questions[quizLog[k].qi + 1].correct
                THEN 10 ELSE -15
  /\ scored.src = "choice" =>
       /\ quizLog # <<>>
       /\ quizLog[Len(quizLog)].src = "choice"
       /\ scored.delta = quizLog[Len(quizLog)].delta

\* A selection was submitted for a question without a correct index, and then
\* one for a question whose correct index is past its options; both cost 15.
C6_Witness ==
  /\ Len(quizLog) = 2
  /\ \A k \in 1..2 : quizLog[k].src = "choice" /\ quizLog[k].delta = -15
  /\ Questions[quizLog[1].qi + 1].correct = Absent
  /\ Questions[quizLog[2].qi + 1].correct = NumOptions
  /\ scored.n = 2 /\ stats.stability = 20

\* C7: every resolved Socratic evaluation with score v was applied with delta
\* +15 when v >= 70 and with delta -15 when v < 70.
C7_SocraticThreshold ==
  /\ \A k \in DOMAIN quizLog :
       quizLog[k].src = "socratic" =>
         /\ quizLog[k].answer \in 0..100
         /\ quizLog[k].delta = IF quizLog[k].answer >= 70 THEN 15 ELSE -15
  /\ scored.src = "socratic" =>
       /\ quizLog # <<>>
       /\ quizLog[Len(quizLog)].src = "socratic"
       /\ scored.delta = quizLog[Len(quizLog)].delta

\* A Socratic answer scored exactly 70 has passed.
C7_Witness ==
  /\ quizLog # <<>>
  /\ quizLog[Len(quizLog)] =
       [qi |-> 2, src |-> "socratic", answer |-> 70, delta |-> 15]
  /\ scored.src = "socratic" /\ feedback = "success"

\* C8: in a session with two concept checks and one Socratic defense, once the
\* two checks were answered correctly and the Socratic answer scored >= 70, with
\* no other scoring event, the stability is 85 and the last question offers
\* CONTINUE; CONTINUE then puts the simulation in its COMPLETE state.
C8_AllCorrectDone ==
  /\ Questions = StandardQuestions
  /\ scored.n = 3
  /\ Len(quizLog) = 3
  /\ \A k \in 1..3 : quizLog[k].qi = k - 1
  /\ \A k \in 1..2 : quizLog[k].src = "choice"
                     /\ quizLog[k].answer = Questions[k].correct
  /\ quizLog[3].src = "socratic" /\ quizLog[3].answer >= 70

C8_ThreeCorrect ==
  [][/\ C8_AllCorrectDone' =>
          /\ stats'.stability = 85
          /\ currentQIndex' = 2
          /\ quizComplete' \/ feedback' # "none"
     /\ (C8_AllCorrectDone /\ nextQuestion) => quizComplete'
     /\ (C8_AllCorrectDone /\ quizComplete) => quizComplete']_vars

\* The three questions were answered correctly and the simulation is complete.
C8_Witness ==
  /\ C8_AllCorrectDone
  /\ quizComplete
  /\ stats.stability = 85 /\ stats.streak = 3

\* C9: without a credential at startup the top-level state is INIT in every
\* state, the configuration error is set once the startup effect has run, and
\* no generateGameSession call is ever made.
C9_NoKeyStaysInit ==
  ~envKey =>
    /\ gameState = "INIT"
    /\ booted => error = "ENV_KEY_MISSING"
    /\ ~apiKey
    /\ calls = EmptyBag
    /\ startsLeft = MaxStarts
    /\ sessionData = NoData /\ inputContext = "none"

\* The startup effect has run without a credential.
C9_Witness == ~envKey /\ booted /\ error = "ENV_KEY_MISSING"

\* C10: the ingest step starts processing only with a loaded file or a text
\* longer than 50 characters, with a file-kind context when a file is loaded
\* (whatever the text) and a text-kind context otherwise; and with either of
\* them INITIALIZE does start.
C10_IngestAcceptance ==
  [][/\ (IngestMounted /\ gameState' = "PROCESSING") =>
          /\ loadedFile # "none" \/ text > 50
          /\ inputContext' = IF loadedFile # "none" THEN "file" ELSE "text"
          /\ calls' = calls (+) SetToBag({Call("generateGameSession", NoConcept,
                                               NullQ, 0, <<>>)})
     /\ (IngestMounted /\ text <= 50 /\ loadedFile = "none") =>
          gameState' = "INGESTION" /\ Pending("generateGameSession")' = {}
     /\ (/\ IngestMounted
         /\ loadedFile # "none" \/ text > 50
         /\ startsLeft > 0 /\ NumCalls < callsCap) => ENABLED handleStart]_vars

\* Processing has started with a file-kind context.
C10_Witness ==
  /\ gameState = "PROCESSING"
  /\ inputContext = "file"
  /\ Pending("generateGameSession") # {}

\* C11: in the ingest step a loaded file and a non-empty pasted text are never
\* both present.
C11_FileXorText == ~(IngestMounted /\ loadedFile # "none" /\ text > 0)

\* C12: PROCESSING is left only by the generateGameSession call settling: to
\* SESSION_ACTIVE with the returned data as session data (and an input
\* context), or to INGESTION with an error message; a message, once set, stays
\* as it is until processing starts again.
C12_ProcessingOutcome ==
  [][/\ gameState = "PROCESSING" =>
          /\ gameState' \in {"PROCESSING", "SESSION_ACTIVE", "INGESTION"}
          /\ gameState' # "PROCESSING" =>
               \E c \in Pending("generateGameSession") :
                 calls' = calls (-) SetToBag({c})
     /\ gameState' = "SESSION_ACTIVE" =>
          /\ sessionData' # NoData /\ inputContext' # "none"
          /\ gameState = "PROCESSING" =>
               /\ sessionData'.questions \in {d.questions : d \in ServiceDatas}
               /\ concepts' = sessionData'.concepts
               /\ Len(concepts') > 0
     /\ (gameState = "PROCESSING" /\ gameState' = "INGESTION") =>
          error' # "none" /\ sessionData' = sessionData
     /\ (error # "none" /\ error' # error) => gameState' = "PROCESSING"]_vars

\* A failed generation has put the flow back in INGESTION with its message.
C12_Witness ==
  /\ gameState = "INGESTION"
  /\ error = "Neural construction failed"
  /\ startsLeft < MaxStarts
  /\ calls = EmptyBag

\* C13: leaving an active session puts the flow in INGESTION; a session that
\* becomes active starts with stability 50, streak 0, no synced node, one
\* history sample, the first question, an empty deep-dive cache, no active
\* concept and every concept unmastered; a call of a session that was left
\* changes nothing of the session when it settles.
C13_FreshSession ==
  [][/\ (gameState = "SESSION_ACTIVE" /\ gameState' # "SESSION_ACTIVE") =>
          gameState' = "INGESTION"
     /\ (gameState # "SESSION_ACTIVE" /\ gameState' = "SESSION_ACTIVE") =>
          /\ stats' = [syncedNodes |-> 0, stability |-> 50, streak |-> 0]
          /\ history' = <<[time |-> 0, stability |-> 50]>>
          /\ currentQIndex' = 0 /\ ~quizComplete'
          /\ feedback' = "none" /\ selectedOption' = NoOption
          /\ activeConceptId' = NoConcept
          /\ viewMode' = "DATA_CORE" /\ conceptMode' = "OVERVIEW"
          /\ challengeQ' = NullQ /\ ~loadingChallenge' /\ ~loadingDeepDive'
          /\ DOMAIN deepDiveData' = DOMAIN concepts'
          /\ \A i \in DOMAIN concepts' : ~concepts'[i] /\ deepDiveData'[i] = 0
     /\ (\E c \in BagToSet(calls) : ~c.live /\ calls' = calls (-) SetToBag({c})) =>
          UNCHANGED <<gameState, viewMode, coreVars, quizVars, stats, history>>]_vars

\* A second session is active and untouched while an evaluation submitted in
\* the first one is still outstanding.
C13_Witness ==
  /\ gameState = "SESSION_ACTIVE"
  /\ startsLeft = 0 /\ submitsLeft = 0
  /\ \E c \in BagToSet(calls) : ~c.live
  /\ stats = [syncedNodes |-> 0, stability |-> 50, streak |-> 0]
  /\ Len(history) = 1

\* C14: stats, history and mastered flags change only in a step that is a
\* concept-check submission or that handles a response carrying a payload; a
\* step that handles a response without one, or a rejected call, changes none
\* of stats, history, mastered flags and the deep-dive cache.
C14_MutatedOnlyOnSuccess ==
  [][/\ (stats' # stats \/ history' # history \/ concepts' # concepts) =>
          \/ handleChoiceSubmit
          \/ \E c \in BagToSet(calls), passed \in BOOLEAN :
               SyncResolve(c, "text", passed)
          \/ \E c \in BagToSet(calls), v \in Scores : SocraticResolve(c, "text", v)
     /\ (\E c \in BagToSet(calls), resp \in {"empty", "throws"} :
           \/ \E content \in 1..NumContents : DeepDiveResolve(c, resp, content)
           \/ ChallengeResolve(c, resp)
           \/ \E passed \in BOOLEAN : SyncResolve(c, resp, passed)
           \/ \E v \in Scores : SocraticResolve(c, resp, v)) =>
          UNCHANGED <<stats, history, concepts, deepDiveData>>]_vars

\* C15: a response with an empty text makes each of the five operations fail:
\* the step that handles it takes the caller's failure path (generateGameSession:
\* back to INGESTION with an error; generateDeepDive: no cache entry;
\* generateConceptChallenge: the error text as question; evaluateChallenge: no
\* verdict; evaluateSocraticAnswer: error feedback and no scoring).
C15_EmptyPayloadFails ==
  [][\A c \in BagToSet(calls) :
       /\ (\E d \in ServiceDatas : ProcessingResolve(c, "empty", d)) =>
            gameState' = "INGESTION" /\ error' # "none"
       /\ (\E content \in 1..NumContents : DeepDiveResolve(c, "empty", content)) =>
            deepDiveData' = deepDiveData /\ conceptMode' = conceptMode
       /\ ChallengeResolve(c, "empty") => challengeQ' = ErrorQ
       /\ (\E passed \in BOOLEAN : SyncResolve(c, "empty", passed)) =>
            UNCHANGED <<challengeFeedback, concepts, stats, history>>
       /\ (\E v \in Scores : SocraticResolve(c, "empty", v)) =>
            feedback' = "error" /\ UNCHANGED <<stats, history>>]_vars

\* C16: while an evaluateChallenge call for a concept is outstanding the
\* sync-submit control is disabled for that concept, so at most one
\* evaluateChallenge call per concept is outstanding.
C16_OneEvaluationPerConcept ==
  \A id \in DOMAIN concepts :
    LET evals == {c \in LivePending("evaluateChallenge") : c.cid = id}
    IN /\ Cardinality(evals) <= 1
       /\ \A c \in evals : CopiesIn(c, calls) = 1
       /\ (evals # {} /\ activeConcept = id /\ ChallengeFormShown) =>
            SyncSubmitDisabled

\* C17: stats.syncedNodes is the number of mastered concepts.
C17_SyncedNodesCountsMastered ==
  stats.syncedNodes = Cardinality({i \in DOMAIN concepts : concepts[i]})

\* C18: the step that handles a successful evaluateChallenge response submitted
\* for concept id: with passed = true it sets mastered of id (and of no other
\* concept), adds 1 to syncedNodes and applies delta +10; with passed = false it
\* applies delta -5 and changes neither syncedNodes nor any mastered flag.
C18_SyncOutcome ==
  [][\A c \in LivePending("evaluateChallenge") :
       \A passed \in BOOLEAN :
         SyncResolve(c, "text", passed) =>
           /\ scored'.n = scored.n + 1
           /\ IF passed
                THEN /\ concepts'[c.cid]
                     /\ \A j \in DOMAIN concepts :
                          j # c.cid => concepts'[j] = concepts[j]
                     /\ stats'.syncedNodes = stats.syncedNodes + 1
                     /\ stats'.stability =
                          IF stats.stability + 10 > 100 THEN 100
                          ELSE stats.stability + 10
                ELSE /\ concepts' = concepts
                     /\ stats'.syncedNodes = stats.syncedNodes
                     /\ stats'.stability =
                          IF stats.stability - 5 < 0 THEN 0
                          ELSE stats.stability - 5]_vars

\* An evaluation submitted for one concept has passed while another concept was
\* active: the concept of the submission is the mastered one.
C18_Witness ==
  /\ activeConcept # NoConcept
  /\ ~concepts[activeConcept]
  /\ \E i \in DOMAIN concepts : concepts[i]
  /\ stats.syncedNodes = 1 /\ stats.stability = 60
  /\ scored.src = "sync" /\ scored.delta = 10

\* C19: selecting a concept makes it the active concept, sets the sub-mode to
\* OVERVIEW and clears the challenge question, answer and feedback in that
\* step; stats, history, mastered flags, deep-dive cache and quiz state stay.
C19_SelectResets ==
  [][\A id \in DOMAIN concepts :
       handleConceptSelect(id) =>
         /\ activeConceptId' = id
         /\ conceptMode' = "OVERVIEW"
         /\ challengeQ' = NullQ
         /\ challengeAnswer' = ""
         /\ challengeFeedback' = "none"
         /\ UNCHANGED <<stats, history, concepts, deepDiveData, quizVars>>]_vars

\* A concept was selected after an answer had been submitted: the evaluation
\* is outstanding, and question and answer are cleared.
C19_Witness ==
  /\ activeConcept # NoConcept
  /\ conceptMode = "OVERVIEW"
  /\ challengeQ = NullQ /\ challengeAnswer = "" /\ challengeFeedback = "none"
  /\ LivePending("evaluateChallenge") # {}
  /\ Pending("generateConceptChallenge") = {}

\* C20: the step that handles a failed generateDeepDive call leaves the
\* sub-mode and the deep-dive cache as they are and clears the loading flag;
\* a request for a concept without a cache entry issues a call for it.
C20_DeepDiveFailure ==
  [][/\ \A c \in LivePending("generateDeepDive") :
          (\E resp \in {"empty", "throws"}, content \in 1..NumContents :
             DeepDiveResolve(c, resp, content)) =>
            /\ conceptMode' = conceptMode
            /\ deepDiveData' = deepDiveData
            /\ ~loadingDeepDive'
     /\ (fetchDeepDive /\ ~DeepDiveCached(activeConcept)) =>
          /\ calls' = calls (+) SetToBag({Call("generateDeepDive", activeConcept,
                                               NullQ, 0, <<>>)})
          /\ loadingDeepDive']_vars

\* One of two deep-dive calls has failed: the loading flag is cleared, nothing
\* is cached, and the other call is still outstanding.
C20_Witness ==
  /\ LivePending("generateDeepDive") # {}
  /\ ~loadingDeepDive
  /\ \A i \in DOMAIN concepts : ~DeepDiveCached(i)
  /\ conceptMode = "OVERVIEW"

\* C21: the streak starts at 0 and changes only in scoring events: an event
\* with a positive delta adds 1 and an event with any other delta sets it to
\* 0, whether or not the stability was clamped.
C21_Streak ==
  [][/\ scored.n = 0 => stats.streak = 0
     /\ stats.streak <= scored.n
     /\ IF scored'.n = scored.n + 1
          THEN stats'.streak = IF scored'.delta > 0 THEN stats.streak + 1 ELSE 0
          ELSE stats'.streak = stats.streak]_vars

\* A positive event whose result was clamped at 100 has extended the streak.
C21_Witness ==
  /\ scored.before + scored.delta > 100
  /\ stats.stability = 100
  /\ stats.streak = scored.n /\ scored.n >= 2

\* C22: after n scoring events the history holds min(20, n + 1) samples, its
\* last sample is the current stability, and each event appends one sample
\* whose time is the length of the history before the event, keeping the
\* earlier samples (below the cap).
C22_HistoryComplete ==
  [][/\ Len(history) = Min(HISTORY_CAP, scored.n + 1)
     /\ history[Len(history)].stability = stats.stability
     /\ (scored'.n = scored.n + 1 /\ Len(history) < HISTORY_CAP) =>
          history' = Append(history, [time |-> Len(history),
                                      stability |-> stats'.stability])]_vars

\* C23: the quiz index is within 0..Len(Questions)-1; it changes only by
\* CONTINUE below the last question, which adds 1 and clears selection, free
\* text and feedback; CONTINUE on the last question sets COMPLETE and nothing
\* else does; once COMPLETE, the simulation stays COMPLETE and the index stays.
C23_QuizTraversal ==
  [][/\ currentQIndex \in 0..(Len(Questions) - 1)
     /\ currentQIndex' \in 0..(Len(Questions) - 1)
     /\ currentQIndex' # currentQIndex =>
          /\ nextQuestion
          /\ viewMode = "SIMULATION" /\ feedback # "none" /\ ~quizComplete
          /\ currentQIndex < Len(Questions) - 1
          /\ currentQIndex' = currentQIndex + 1
          /\ selectedOption' = NoOption /\ socraticInput' = ""
          /\ feedback' = "none"
          /\ ~quizComplete'
     /\ (nextQuestion /\ currentQIndex = Len(Questions) - 1) => quizComplete'
     /\ (~quizComplete /\ quizComplete') =>
          /\ nextQuestion
          /\ currentQIndex = Len(Questions) - 1
     /\ quizComplete => quizComplete' /\ currentQIndex' = currentQIndex]_vars

\* The simulation is COMPLETE at its last question and the data core is shown.
C23_Witness ==
  /\ quizComplete
  /\ currentQIndex = Len(Questions) - 1
  /\ currentQIndex = 2
  /\ viewMode = "DATA_CORE"

\* C24: the step that handles an evaluation with passed = false leaves the
\* answer box editable; after an evaluation with passed = true the answer box
\* and the submit control are disabled, and the passed verdict shown for a
\* mastered active concept goes away only by a concept selection.
C24_LockedOnlyAfterPass ==
  [][/\ (\E c \in BagToSet(calls) : SyncResolve(c, "text", FALSE)) =>
          ~AnswerBoxDisabled'
     /\ challengeFeedback = "passed" => AnswerBoxDisabled /\ SyncSubmitDisabled
     /\ (/\ challengeFeedback = "passed"
         /\ activeConcept # NoConcept /\ concepts[activeConcept]
         /\ challengeFeedback' # "passed") =>
          \E id \in DOMAIN concepts : handleConceptSelect(id)]_vars

\* C25: each question gets at most one stability update, and a quiz update is
\* applied only for the question at the current index while the simulation is
\* not COMPLETE.
C25_OneUpdatePerQuestion ==
  [][/\ \A j, k \in DOMAIN quizLog : j # k => quizLog[j].qi # quizLog[k].qi
     /\ Cardinality(LivePending("evaluateSocraticAnswer")) <= 1
     /\ \A c \in LivePending("evaluateSocraticAnswer") :
          CopiesIn(c, calls) = 1 /\ \A k \in DOMAIN quizLog : quizLog[k].qi # c.qi
     /\ quizLog' # quizLog =>
          /\ ~quizComplete
          /\ quizLog'[Len(quizLog')].qi = currentQIndex]_vars

\* C26: a generated question passed to evaluateChallenge was generated for the
\* concept that is active at the submission, so a concept is mastered only by
\* a passed challenge that was generated for it.
C26_QuestionOfActiveConcept ==
  \A c \in LivePending("evaluateChallenge") :
    /\ c.cq # NullQ
    /\ c.cq.src = "generated" => c.cq.cid = c.cid

\* C27: when the sub-mode is DEEP_DIVE the deep-dive cache holds an entry for
\* the active concept.
C27_DeepDiveHasContent ==
  (SessionMounted /\ conceptMode = "DEEP_DIVE") =>
    activeConcept # NoConcept /\ DeepDiveCached(activeConcept)

\* C28: after a failed generateConceptChallenge call there is no question to
\* submit: the submit control is disabled while the failure's text stands in
\* for the question, and no evaluateChallenge call carries it.
C28_NoQuestionAfterFailure ==
  /\ (ChallengeFormShown /\ challengeQ = ErrorQ) => SyncSubmitDisabled
  /\ \A c \in LivePending("evaluateChallenge") : c.cq # ErrorQ

\* C29: a question that is shown without feedback can be answered: as long as
\* submissions and calls are left, an evaluation is outstanding, or an answer
\* can be submitted, or an option or a text can be entered.
C29_QuestionAnswerable ==
  (/\ QuestionShown /\ feedback = "none"
   /\ submitsLeft > 0 /\ NumCalls < callsCap) =>
     \/ LivePending("evaluateSocraticAnswer") # {}
     \/ ENABLED handleChoiceSubmit
     \/ ENABLED handleSocraticSubmit
     \/ ENABLED (\E idx \in 0..(NumOptions - 1) : SetSelectedOption(idx))
     \/ ENABLED (\E str \in SocraticInputs : SetSocraticInput(str))
====
